---- MODULE Spec2Model ----
(***************************************************************************)
(* Locksmith (src/lksmith.c): the lock registry, the atomic association of *)
(* a lksmith_lock_data record with a user mutex (init / destroy), the      *)
(* error callback and the pthread wrappers, as a state machine.            *)
(*                                                                         *)
(* Each thread is either between two API calls (pc = "idle", with the      *)
(* locals and the return value of its last call still readable) or inside  *)
(* one call, at the program point pc names.  A step is the code between    *)
(* two accesses to memory other threads can see.  Undefined behaviour      *)
(* (a store through a null g_locks_used, a read through a null or freed    *)
(* lksmith_lock_data, a return value that was never set) is a choice       *)
(* between the outcomes a build produces: the process dies (crashed), or   *)
(* the access has no effect on the state modelled here; a value that was   *)
(* never set is any value.                                                 *)
(***************************************************************************)
EXTENDS Integers, Sequences, FiniteSets, TLC

\* ---------------------------------------------------------------- bounds
\* Number of heap blocks malloc can hand out for lksmith_lock_data records.
NumAddrs == 3
\* Number of init and destroy calls the threads start, all threads together.
MaxCalls == 3

\* Largest str_len handed to lksmith_verion_to_str.
MaxStrLen == 12

\* Largest new_size handed to lksmith_realloc_lock_data.
MaxBeforeSize == 32

Threads == {"t1", "t2"}
Mutexes == {"A", "B"}
Addrs == 1..NumAddrs
NULL == 0

\* ------------------------------------------------------------- constants
LKSMITH_BEFORE_MIN == 16

\* Locksmith error codes (lksmith.h) and the errno values they map to.
LKSMITH_ERROR_OOM == "OOM"
LKSMITH_ERROR_CREATE_WHILE_IN_USE == "CREATE_WHILE_IN_USE"
LKSMITH_ERROR_DESTROY_WHILE_IN_USE == "DESTROY_WHILE_IN_USE"
LKSMITH_ERROR_MULTIPLE_DESTROY == "MULTIPLE_DESTROY"

lksmith_error_to_errno(lkerr) ==
    CASE lkerr = LKSMITH_ERROR_OOM -> "ENOMEM"
      [] lkerr = LKSMITH_ERROR_DESTROY_WHILE_IN_USE -> "EINVAL"
      [] lkerr = LKSMITH_ERROR_CREATE_WHILE_IN_USE -> "EINVAL"
      [] OTHER -> "EIO"

\* The error kind the engine is to report for a lock-order contradiction.
OrderViolation == "ORDER_VIOLATION"

\* What a function returns when control leaves it without a return
\* statement: any int.  "OK" is 0, "GARBAGE" any other value.
Indeterminate == {"OK", "GARBAGE"}

\* ------------------------------------------------------ bitfield helpers
BITFIELD_MEM(n) == (n + 7) \div 8

BITFIELD_TEST(bf, i) == i \in bf

BITFIELD_SET(bf, i) == bf \cup {i}

\* ----------------------------------------------------------------- state
VARIABLES
    assoc,           \* mutex->info.data of each user mutex
    heap,            \* the lksmith_lock_data blocks: heap[a].live is FALSE once freed
    g_locks,         \* the table of records, indexed by lock id
    g_locks_size,    \* number of slots of g_locks
    g_locks_used,    \* the set bits of the g_locks_used bitfield
    g_locks_used_mem,\* bytes allocated for g_locks_used (0: the pointer is NULL)
    g_internal_lock, \* owner of g_internal_lock, or "none"
    g_error_cb,      \* the installed error callback
    errlog,          \* every callback invocation so far: <<callback, code>>
    crashed,         \* the process died on an invalid memory access
    pc,              \* per thread: program point
    op,              \* per thread: the API function of the current / last call
    mtx,             \* per thread: its mutex argument
    data,            \* per thread: local data of lksmith_mutex_init
    cur,             \* per thread: local cur of lksmith_mutex_destroy
    prev,            \* per thread: local prev (the CAS result)
    ret,             \* per thread: local ret
    next_lock_id,    \* per thread: local next_lock_id
    error_cb,        \* per thread: local error_cb
    rv,              \* per thread: value returned by the last call
    rep,             \* per thread: codes the current / last call passed to the callback
    ncalls,          \* init and destroy calls started so far
    issued,          \* every id lksmith_alloc_next_lock_id returned, in order
    overlap,         \* per thread: its current / last init or destroy call ran while
                     \* the other thread was inside the other of the two, same mutex
    held,            \* per thread: the set bits of tls->held
    owned,           \* per thread: the mutexes a wrapper told it it has locked
    order,           \* <<t, h, m>>: t was told it locked m while it owned another mutex h
    fn,              \* per thread: argument fn of lksmith_set_error_cb
    window,          \* per thread: the callbacks installed since its current error
                     \* report started; outside a report, the installed callback
    blk,             \* a lock record's before bitfield: [size, before]; size 0: no record
    grow_old,        \* blk as the last lksmith_realloc_lock_data call found it
    grow_arg,        \* the new_size argument of that call
    grow_ret,        \* what that call returned; "none" before the first call
    api_version,     \* LKSMITH_API_VERSION, the packed version this build was made with
    ver,             \* argument ver of lksmith_verion_to_str
    str_len,         \* argument str_len
    str,             \* the characters written to str, before the terminator
    ver_ret,         \* what lksmith_verion_to_str returned; "none" before the call
    g_tls_lock,      \* who g_tls_lock says holds it, or "none"
    tls_waiters,     \* the lock word of g_tls_lock says threads sleep on it
    g_tls_key_init,  \* g_tls_key_init
    first_key,       \* the key the process's next pthread_key_create returns at start
    keys_created,    \* successful pthread_key_create calls so far
    slot,            \* per thread: its thread-specific value under key 0, the
                     \* value g_tls_key has (it is never assigned)
    improved,        \* the build defines HAVE_IMPROVED_TLS
    t_improved_tls,  \* per thread: static __thread t_improved_tls
    tls,             \* per thread: local tls of get_or_create_tls
    tls_ret,         \* per thread: what its last get_or_create_tls call returned
    got,             \* per thread: every non-null pointer get_or_create_tls returned to it
    tls_live         \* the lksmith_tls blocks allocated and not freed

vars == <<assoc, heap, g_locks, g_locks_size, g_locks_used, g_locks_used_mem,
          g_internal_lock, g_error_cb, errlog, crashed, pc, op, mtx, data, cur,
          prev, ret, next_lock_id, error_cb, rv, rep, ncalls, issued, overlap,
          held, owned, order, fn, window,
          blk, grow_old, grow_arg, grow_ret,
          api_version, ver, str_len, str, ver_ret,
          g_tls_lock, tls_waiters, g_tls_key_init, first_key, keys_created, slot, improved,
          t_improved_tls, tls, tls_ret, got, tls_live>>

registry == <<g_locks, g_locks_size, g_locks_used, g_locks_used_mem>>
locals == <<data, cur, prev, ret, next_lock_id, error_cb>>
engine == <<held, owned, order>>
cbvars == <<fn, window>>
growvars == <<blk, grow_old, grow_arg, grow_ret>>
vervars == <<api_version, ver, str_len, str, ver_ret>>
tlsglobals == <<g_tls_lock, tls_waiters, g_tls_key_init, first_key, keys_created,
                improved>>
tlslocals == <<slot, t_improved_tls, tls, tls_ret, got, tls_live>>
tlsvars == <<tlsglobals, tlslocals>>
others == <<cbvars, growvars, vervars, tlsvars>>

\* The default callback and one a program installs.
Callbacks == {"lksmith_error_cb_to_stderr", "fn1"}

CbInit ==
    /\ fn = [t \in Threads |-> "lksmith_error_cb_to_stderr"]
    /\ window = [t \in Threads |-> {"lksmith_error_cb_to_stderr"}]

NoBlock == [size |-> 0, before |-> {}]

GrowInit ==
    /\ blk = NoBlock
    /\ grow_old = NoBlock
    /\ grow_arg = 0
    /\ grow_ret = "none"

\* No lksmith_verion_to_str call has been made; the build's version is 1.0.
VerInit ==
    /\ api_version = 65536
    /\ ver = 0
    /\ str_len = 0
    /\ str = <<>>
    /\ ver_ret = "none"

\* A non-null pointer that is not a lksmith_tls block: what another user of
\* key 0 stored as its thread-specific value.
ForeignPtr == 99

\* Lines 76-86 and 190: no key created, g_tls_lock free, nothing stored.
TlsInit ==
    /\ g_tls_lock = "none"
    /\ tls_waiters = FALSE
    /\ g_tls_key_init = 0
    /\ first_key = 0
    /\ keys_created = 0
    /\ slot = [t \in Threads |-> NULL]
    /\ improved = FALSE
    /\ t_improved_tls = [t \in Threads |-> NULL]
    /\ tls = [t \in Threads |-> NULL]
    /\ tls_ret = [t \in Threads |-> NULL]
    /\ got = [t \in Threads |-> {}]
    /\ tls_live = {}

\* The variables no init, destroy or wrapper call touches, as the process starts.
OthersInit == CbInit /\ GrowInit /\ VerInit /\ TlsInit

FreeBlock == [live |-> FALSE, name |-> "", nlock |-> 0, id |-> 0, before |-> {}]

\* The block lksmith_realloc_lock_data returns for *data == NULL: zeroed.
ZeroedLockData == [live |-> TRUE, name |-> "", nlock |-> 0, id |-> 0, before |-> {}]

LifecycleInit ==
    /\ assoc = [m \in Mutexes |-> NULL]
    /\ heap = [a \in Addrs |-> FreeBlock]
    /\ g_locks = <<>>
    /\ g_locks_size = 0
    /\ g_locks_used = {}
    /\ g_locks_used_mem = 0
    /\ g_internal_lock = "none"
    /\ g_error_cb = "lksmith_error_cb_to_stderr"
    /\ errlog = <<>>
    /\ crashed = FALSE
    /\ pc = [t \in Threads |-> "idle"]
    /\ op = [t \in Threads |-> "none"]
    /\ mtx = [t \in Threads |-> "A"]
    /\ data = [t \in Threads |-> NULL]
    /\ cur = [t \in Threads |-> NULL]
    /\ prev = [t \in Threads |-> NULL]
    /\ ret = [t \in Threads |-> "OK"]
    /\ next_lock_id = [t \in Threads |-> 0]
    /\ error_cb = [t \in Threads |-> "none"]
    /\ rv = [t \in Threads |-> "OK"]
    /\ rep = [t \in Threads |-> <<>>]
    /\ ncalls = 0
    /\ issued = <<>>
    /\ overlap = [t \in Threads |-> FALSE]
    /\ held = [t \in Threads |-> {}]
    /\ owned = [t \in Threads |-> {}]
    /\ order = {}

Init == LifecycleInit /\ OthersInit

\* Thread u is inside init or destroy on mutex m, and f is the other of the two.
Racing(u, f, m) ==
    /\ pc[u] # "idle"
    /\ mtx[u] = m
    /\ {op[u], f} = {"init", "destroy"}

\* A thread enters an API function: its locals are fresh.
Enter(t, f, m) ==
    /\ ~crashed
    /\ pc[t] = "idle"
    /\ ncalls < MaxCalls
    /\ ncalls' = ncalls + 1
    /\ op' = [op EXCEPT ![t] = f]
    /\ mtx' = [mtx EXCEPT ![t] = m]
    /\ rep' = [rep EXCEPT ![t] = <<>>]
    /\ overlap' = [u \in Threads |->
                     IF u = t THEN \E v \in Threads : Racing(v, f, m)
                     ELSE overlap[u] \/ Racing(u, f, m)]

\* The locals of thread t as its call starts, with data, cur and ret as given.
Locals(t, d, c, r) ==
    /\ data' = [data EXCEPT ![t] = d]
    /\ cur' = [cur EXCEPT ![t] = c]
    /\ ret' = [ret EXCEPT ![t] = r]
    /\ prev' = [prev EXCEPT ![t] = NULL]
    /\ next_lock_id' = [next_lock_id EXCEPT ![t] = 0]
    /\ error_cb' = [error_cb EXCEPT ![t] = "none"]

At(t, p) == ~crashed /\ pc[t] = p

Goto(t, p) == pc' = [pc EXCEPT ![t] = p]

\* The process dies: nothing else changes, and no thread takes another step.
Crash == crashed' = TRUE

\* A pointer that must not be dereferenced: null, or a freed block.
Invalid(p) == IF p = NULL THEN TRUE ELSE ~heap[p].live

\* ------------------------------------------------------------- registry
\* The for loop of lksmith_alloc_next_lock_id: the lowest i < size whose
\* used bit is clear, or size when there is none.
ScanFirstClear(used, size) ==
    CHOOSE i \in 0..size :
        /\ i = size \/ ~BITFIELD_TEST(used, i)
        /\ \A j \in 0..(i - 1) : BITFIELD_TEST(used, j)

\* lksmith_alloc_next_lock_id on the registry <<locks, size, used, mem>>.
\* oom names the realloc that fails, if any; junk is what the bytes a
\* successful realloc of g_locks_used adds happen to hold.  The result is
\* the registry afterwards, the value returned (-1: -LKSMITH_ERROR_OOM)
\* and ub: whether BITFIELD_SET stored outside the bytes of g_locks_used.
lksmith_alloc_next_lock_id(locks, size, used, mem, oom, junk) ==
    LET i == ScanFirstClear(used, size)
        grows == i > size
        grow_used == grows /\ BITFIELD_MEM(i) > BITFIELD_MEM(size)
        used_ok == ~(grow_used /\ oom = "used")
        locks_ok == used_ok /\ oom # "locks"
        mem1 == IF grow_used /\ used_ok THEN BITFIELD_MEM(i) ELSE mem
        used1 == IF grow_used /\ used_ok
                 THEN used \cup (junk \cap ((8 * mem)..(8 * mem1 - 1)))
                 ELSE used
        locks1 == IF grows /\ locks_ok
                  THEN [k \in 1..i |-> IF k <= Len(locks) THEN locks[k] ELSE "uninit"]
                  ELSE locks
        size1 == IF grows /\ locks_ok THEN i ELSE size
        inside == i < 8 * mem1
    IN  IF grows /\ ~locks_ok
        THEN [ret |-> -1, ub |-> FALSE, locks |-> locks1, size |-> size1,
              used |-> used1, mem |-> mem1]
        ELSE [ret |-> i, ub |-> ~inside, locks |-> locks1, size |-> size1,
              used |-> IF inside THEN BITFIELD_SET(used1, i) ELSE used1,
              mem |-> mem1]

\* ------------------------------------------------------ lksmith_mutex_init
\* Line 372: lksmith_realloc_lock_data(&data, LKSMITH_BEFORE_MIN) hands
\* realloc the address of the local variable data, not a heap block:
\* the process dies, or realloc returns a block (which is then zeroed) or NULL.
mutex_init_realloc(t, m) ==
    /\ Enter(t, "init", m)
    /\ \/ \E a \in Addrs :
            /\ ~heap[a].live
            /\ heap' = [heap EXCEPT ![a] = ZeroedLockData]
            /\ Locals(t, a, NULL, "OK")
            /\ UNCHANGED crashed
       \/ /\ Locals(t, NULL, NULL, LKSMITH_ERROR_OOM)
          /\ UNCHANGED <<heap, crashed>>
       \/ /\ Crash
          /\ Locals(t, NULL, NULL, "OK")
          /\ UNCHANGED heap
    /\ Goto(t, "init_lock")
    /\ UNCHANGED <<assoc, registry, g_internal_lock, g_error_cb, errlog, rv,
                   issued, engine, others>>

\* Lines 373-379: take g_internal_lock, then look at ret.
mutex_init_lock(t) ==
    /\ At(t, "init_lock")
    /\ g_internal_lock = "none"
    /\ g_internal_lock' = t
    /\ Goto(t, IF ret[t] # "OK" THEN "init_error" ELSE "init_alloc")
    /\ UNCHANGED <<assoc, heap, registry, g_error_cb, errlog, crashed, op, mtx,
                   locals, rv, rep, ncalls, issued, overlap, engine, others>>

\* Lines 380-388: allocate the lock id and fill in the record.
mutex_init_alloc(t) ==
    /\ At(t, "init_alloc")
    /\ \E oom \in {"none", "used", "locks"}, die \in BOOLEAN :
        LET r == lksmith_alloc_next_lock_id(g_locks, g_locks_size, g_locks_used,
                                            g_locks_used_mem, oom, {})
        IN  /\ oom # "none" => r.ret < 0
            /\ die => r.ub
            /\ g_locks' = r.locks
            /\ g_locks_size' = r.size
            /\ g_locks_used' = r.used
            /\ g_locks_used_mem' = r.mem
            /\ crashed' = die
            /\ next_lock_id' = [next_lock_id EXCEPT ![t] = r.ret]
            /\ IF r.ret < 0
               THEN /\ ret' = [ret EXCEPT ![t] = LKSMITH_ERROR_OOM]
                    /\ Goto(t, "init_error")
                    /\ UNCHANGED <<heap, issued>>
               ELSE /\ heap' = [heap EXCEPT ![data[t]].id = r.ret,
                                            ![data[t]].name = mtx[t]]
                    /\ issued' = Append(issued, r.ret)
                    /\ Goto(t, "init_cas")
                    /\ UNCHANGED ret
    /\ UNCHANGED <<assoc, g_internal_lock, g_error_cb, errlog, op, mtx, data, cur,
                   prev, error_cb, rv, rep, ncalls, overlap, engine, others>>

\* mutex_init_cas with a plain store in place of the compare-and-swap: the
\* record is installed whatever the association was.
mutex_init_cas_store(t) ==
    /\ At(t, "init_cas")
    /\ prev' = [prev EXCEPT ![t] = assoc[mtx[t]]]
    /\ assoc' = [assoc EXCEPT ![mtx[t]] = data[t]]
    /\ IF assoc[mtx[t]] = NULL
       THEN /\ Goto(t, "init_unlock")
            /\ UNCHANGED <<ret, error_cb>>
       ELSE /\ error_cb' = [error_cb EXCEPT ![t] = g_error_cb]
            /\ ret' = [ret EXCEPT ![t] = LKSMITH_ERROR_CREATE_WHILE_IN_USE]
            /\ Goto(t, "init_error")
    /\ UNCHANGED <<heap, registry, g_internal_lock, g_error_cb, errlog, crashed,
                   op, mtx, data, cur, next_lock_id, rv, rep, ncalls, issued, overlap,
                   engine, others>>

\* Lines 389-396: __sync_val_compare_and_swap(&mutex->info.data, NULL, data).
mutex_init_cas(t) ==
    /\ At(t, "init_cas")
    /\ prev' = [prev EXCEPT ![t] = assoc[mtx[t]]]
    /\ IF assoc[mtx[t]] = NULL
       THEN /\ assoc' = [assoc EXCEPT ![mtx[t]] = data[t]]
            /\ Goto(t, "init_unlock")
            /\ UNCHANGED <<ret, error_cb>>
       ELSE /\ error_cb' = [error_cb EXCEPT ![t] = g_error_cb]
            /\ ret' = [ret EXCEPT ![t] = LKSMITH_ERROR_CREATE_WHILE_IN_USE]
            /\ Goto(t, "init_error")
            /\ UNCHANGED assoc
    /\ UNCHANGED <<heap, registry, g_internal_lock, g_error_cb, errlog, crashed,
                   op, mtx, data, cur, next_lock_id, rv, rep, ncalls, issued, overlap,
                   engine, others>>

\* Lines 397-398: the success path.
mutex_init_unlock(t) ==
    /\ At(t, "init_unlock")
    /\ g_internal_lock' = "none"
    /\ rv' = [rv EXCEPT ![t] = "OK"]
    /\ Goto(t, "idle")
    /\ UNCHANGED <<assoc, heap, registry, g_error_cb, errlog, crashed, op, mtx,
                   locals, rep, ncalls, issued, overlap, engine, others>>

\* Lines 400-402: error: read the callback, release g_internal_lock.
mutex_init_error(t) ==
    /\ At(t, "init_error")
    /\ error_cb' = [error_cb EXCEPT ![t] = g_error_cb]
    /\ g_internal_lock' = "none"
    /\ Goto(t, "init_free")
    /\ UNCHANGED <<assoc, heap, registry, g_error_cb, errlog, crashed, op, mtx,
                   data, cur, prev, ret, next_lock_id, rv, rep, ncalls, issued, overlap,
                   engine, others>>

\* Line 403: free(data).
mutex_init_free(t) ==
    /\ At(t, "init_free")
    /\ heap' = IF data[t] = NULL THEN heap ELSE [heap EXCEPT ![data[t]] = FreeBlock]
    /\ Goto(t, "init_cb")
    /\ UNCHANGED <<assoc, registry, g_internal_lock, g_error_cb, errlog, crashed,
                   op, mtx, locals, rv, rep, ncalls, issued, overlap, engine, others>>

\* Lines 404-405: error_cb(ret, buf); return lksmith_error_to_errno(ret).
mutex_init_cb(t) ==
    /\ At(t, "init_cb")
    /\ errlog' = Append(errlog, <<error_cb[t], ret[t]>>)
    /\ rep' = [rep EXCEPT ![t] = Append(rep[t], ret[t])]
    /\ rv' = [rv EXCEPT ![t] = lksmith_error_to_errno(ret[t])]
    /\ Goto(t, "idle")
    /\ UNCHANGED <<assoc, heap, registry, g_internal_lock, g_error_cb, crashed,
                   op, mtx, locals, ncalls, issued, overlap, engine, others>>

lksmith_mutex_init(t) ==
    \/ \E m \in Mutexes : mutex_init_realloc(t, m)
    \/ mutex_init_lock(t)
    \/ mutex_init_alloc(t)
    \/ mutex_init_cas(t)
    \/ mutex_init_unlock(t)
    \/ mutex_init_error(t)
    \/ mutex_init_free(t)
    \/ mutex_init_cb(t)

\* --------------------------------------------------- lksmith_mutex_destroy
\* Lines 416-417: cur = mutex->info.data.
mutex_destroy_read(t, m) ==
    /\ Enter(t, "destroy", m)
    /\ Locals(t, NULL, assoc[m], "OK")
    /\ Goto(t, "destroy_name")
    /\ UNCHANGED <<assoc, heap, registry, g_internal_lock, g_error_cb, errlog,
                   crashed, rv, issued, engine, others>>

\* Line 418: snprintf(name, sizeof(name), "%s", cur->name) reads through cur,
\* which may be NULL or a block another thread has freed since.
mutex_destroy_name(t) ==
    /\ At(t, "destroy_name")
    /\ \E die \in BOOLEAN :
        /\ die => Invalid(cur[t])
        /\ crashed' = die
    /\ Goto(t, "destroy_cas")
    /\ UNCHANGED <<assoc, heap, registry, g_internal_lock, g_error_cb, errlog,
                   op, mtx, locals, rv, rep, ncalls, issued, overlap, engine, others>>

\* mutex_destroy_cas with a plain store in place of the compare-and-swap:
\* the association is cleared whatever it was, and cur is what gets freed.
mutex_destroy_cas_store(t) ==
    /\ At(t, "destroy_cas")
    /\ prev' = [prev EXCEPT ![t] = cur[t]]
    /\ assoc' = [assoc EXCEPT ![mtx[t]] = NULL]
    /\ Goto(t, "destroy_free")
    /\ UNCHANGED <<heap, registry, g_internal_lock, g_error_cb, errlog, crashed,
                   op, mtx, data, cur, ret, next_lock_id, error_cb, rv, rep, ncalls,
                   issued, overlap, engine, others>>

\* Lines 419-435: __sync_val_compare_and_swap(&mutex->info.data, cur, NULL).
mutex_destroy_cas(t) ==
    /\ At(t, "destroy_cas")
    /\ prev' = [prev EXCEPT ![t] = assoc[mtx[t]]]
    /\ IF assoc[mtx[t]] = cur[t]
       THEN /\ assoc' = [assoc EXCEPT ![mtx[t]] = NULL]
            /\ Goto(t, "destroy_free")
            /\ UNCHANGED ret
       ELSE /\ ret' = [ret EXCEPT ![t] =
                         IF assoc[mtx[t]] = NULL
                         THEN LKSMITH_ERROR_MULTIPLE_DESTROY
                         ELSE LKSMITH_ERROR_DESTROY_WHILE_IN_USE]
            /\ Goto(t, "destroy_error")
            /\ UNCHANGED assoc
    /\ UNCHANGED <<heap, registry, g_internal_lock, g_error_cb, errlog, crashed,
                   op, mtx, data, cur, next_lock_id, error_cb, rv, rep, ncalls,
                   issued, overlap, engine, others>>

\* Lines 436-441: free(prev); return 0.
mutex_destroy_free(t) ==
    /\ At(t, "destroy_free")
    /\ heap' = IF prev[t] = NULL THEN heap ELSE [heap EXCEPT ![prev[t]] = FreeBlock]
    /\ rv' = [rv EXCEPT ![t] = "OK"]
    /\ Goto(t, "idle")
    /\ UNCHANGED <<assoc, registry, g_internal_lock, g_error_cb, errlog, crashed,
                   op, mtx, locals, rep, ncalls, issued, overlap, engine, others>>

\* Lines 443-451: error: with prev non-null the code sets ret and jumps
\* back to error, for ever; with prev null control reaches the closing
\* brace and the function returns a value that was never set.  Neither
\* path calls the error callback.
mutex_destroy_error(t) ==
    /\ At(t, "destroy_error")
    /\ IF prev[t] # NULL
       THEN /\ error_cb' = [error_cb EXCEPT ![t] = g_error_cb]
            /\ ret' = [ret EXCEPT ![t] = LKSMITH_ERROR_CREATE_WHILE_IN_USE]
            /\ UNCHANGED <<pc, rv>>
       ELSE /\ \E r \in Indeterminate : rv' = [rv EXCEPT ![t] = r]
            /\ Goto(t, "idle")
            /\ UNCHANGED <<error_cb, ret>>
    /\ UNCHANGED <<assoc, heap, registry, g_internal_lock, g_error_cb, errlog,
                   crashed, op, mtx, data, cur, prev, next_lock_id, rep, ncalls,
                   issued, overlap, engine, others>>

lksmith_mutex_destroy(t) ==
    \/ \E m \in Mutexes : mutex_destroy_read(t, m)
    \/ mutex_destroy_name(t)
    \/ mutex_destroy_cas(t)
    \/ mutex_destroy_free(t)
    \/ mutex_destroy_error(t)

Next == \E t \in Threads : lksmith_mutex_init(t) \/ lksmith_mutex_destroy(t)

Spec == Init /\ [][Next]_vars

\* ----------------------------------------------------- pthread wrappers
\* Lines 453-469: the four wrappers have empty bodies.  None resolves the
\* record or the thread's state, calls the pthread primitive, touches a
\* bitfield or nlock, or reports an error; control reaches the closing brace
\* and the caller reads a return value that was never set.  What the caller
\* makes of that value is kept in owned and order: 0 from an acquire means
\* "locked", 0 from unlock means "unlocked".
Wrapper(t, f, m, r) ==
    /\ ~crashed
    /\ pc[t] = "idle"
    /\ op' = [op EXCEPT ![t] = f]
    /\ mtx' = [mtx EXCEPT ![t] = m]
    /\ rv' = [rv EXCEPT ![t] = r]
    /\ rep' = [rep EXCEPT ![t] = <<>>]
    /\ UNCHANGED <<assoc, heap, registry, g_internal_lock, g_error_cb, errlog,
                   crashed, pc, locals, ncalls, issued, overlap, held,
                   others>>

Acquired(t, m, r) ==
    IF r = "OK"
    THEN /\ owned' = [owned EXCEPT ![t] = owned[t] \cup {m}]
         /\ order' = order \cup {<<t, h, m>> : h \in owned[t] \ {m}}
    ELSE UNCHANGED <<owned, order>>

Released(t, m, r) ==
    /\ owned' = IF r = "OK" THEN [owned EXCEPT ![t] = owned[t] \ {m}] ELSE owned
    /\ UNCHANGED order

\* A wrapper that does check: it reports an order violation through the
\* installed callback whenever the calling thread already owns another mutex.
lksmith_pthread_mutex_lock_checking(t, m) ==
    \E r \in Indeterminate :
        /\ ~crashed
        /\ pc[t] = "idle"
        /\ op' = [op EXCEPT ![t] = "lock"]
        /\ mtx' = [mtx EXCEPT ![t] = m]
        /\ rv' = [rv EXCEPT ![t] = r]
        /\ IF owned[t] \ {m} # {}
           THEN /\ errlog' = Append(errlog, <<g_error_cb, OrderViolation>>)
                /\ rep' = [rep EXCEPT ![t] = <<OrderViolation>>]
           ELSE /\ rep' = [rep EXCEPT ![t] = <<>>]
                /\ UNCHANGED errlog
        /\ Acquired(t, m, r)
        /\ UNCHANGED <<assoc, heap, registry, g_internal_lock, g_error_cb,
                       crashed, pc, locals, ncalls, issued, overlap, held,
                   others>>

lksmith_pthread_mutex_lock(t, m) ==
    \E r \in Indeterminate : Wrapper(t, "lock", m, r) /\ Acquired(t, m, r)

lksmith_pthread_mutex_trylock(t, m) ==
    \E r \in Indeterminate : Wrapper(t, "trylock", m, r) /\ Acquired(t, m, r)

lksmith_pthread_mutex_timedlock(t, m) ==
    \E r \in Indeterminate : Wrapper(t, "timedlock", m, r) /\ Acquired(t, m, r)

lksmith_pthread_mutex_unlock(t, m) ==
    \E r \in Indeterminate : Wrapper(t, "unlock", m, r) /\ Released(t, m, r)

\* The state once thread t1 has run lksmith_mutex_init on the first k of
\* the mutexes A, B, one call after the other, each to its return 0.
TrackedByInit(k) ==
    /\ assoc = [m \in Mutexes |-> IF m = "A" /\ k >= 1 THEN 1
                                  ELSE IF m = "B" /\ k >= 2 THEN 2 ELSE NULL]
    /\ heap = [a \in Addrs |->
                 IF a <= k
                 THEN [live |-> TRUE, name |-> IF a = 1 THEN "A" ELSE "B",
                       nlock |-> 0, id |-> 0, before |-> {}]
                 ELSE FreeBlock]
    /\ g_locks = <<>>
    /\ g_locks_size = 0
    /\ g_locks_used = {}
    /\ g_locks_used_mem = 0
    /\ g_internal_lock = "none"
    /\ g_error_cb = "lksmith_error_cb_to_stderr"
    /\ errlog = <<>>
    /\ crashed = FALSE
    /\ pc = [t \in Threads |-> "idle"]
    /\ op = [t \in Threads |-> IF t = "t1" /\ k >= 1 THEN "init" ELSE "none"]
    /\ mtx = [t \in Threads |-> IF t = "t1" /\ k >= 2 THEN "B" ELSE "A"]
    /\ data = [t \in Threads |-> IF t = "t1" THEN k ELSE NULL]
    /\ cur = [t \in Threads |-> NULL]
    /\ prev = [t \in Threads |-> NULL]
    /\ ret = [t \in Threads |-> "OK"]
    /\ next_lock_id = [t \in Threads |-> 0]
    /\ error_cb = [t \in Threads |-> "none"]
    /\ rv = [t \in Threads |-> "OK"]
    /\ rep = [t \in Threads |-> <<>>]
    /\ ncalls = k
    /\ issued = [i \in 1..k |-> 0]
    /\ overlap = [t \in Threads |-> FALSE]
    /\ held = [t \in Threads |-> {}]
    /\ owned = [t \in Threads |-> {}]
    /\ order = {}
    /\ OthersInit

InitEngine == \E k \in 1..2 : TrackedByInit(k)

NextEngine ==
    \E t \in Threads, m \in Mutexes :
        \/ lksmith_pthread_mutex_lock(t, m)
        \/ lksmith_pthread_mutex_trylock(t, m)
        \/ lksmith_pthread_mutex_timedlock(t, m)
        \/ lksmith_pthread_mutex_unlock(t, m)

SpecEngine == InitEngine /\ [][NextEngine]_vars

\* ------------------------------------------------------- error callback
lifecycle == <<assoc, heap, registry, issued, overlap>>

\* Thread u is between the start of an error report and its callback call:
\* on the error path of lksmith_mutex_init or in lksmith_print_error_unlocked.
InReport(u) ==
    pc[u] \in {"init_error", "init_free", "init_cb",
               "print_lock", "print_read", "print_unlock", "print_cb"}

\* Line 280: lksmith_set_error_cb(f) is called.
set_error_cb_enter(t, f) ==
    /\ ~crashed
    /\ pc[t] = "idle"
    /\ ncalls < MaxCalls
    /\ ncalls' = ncalls + 1
    /\ op' = [op EXCEPT ![t] = "set_error_cb"]
    /\ fn' = [fn EXCEPT ![t] = f]
    /\ Goto(t, "setcb_lock")
    /\ UNCHANGED <<lifecycle, g_internal_lock, g_error_cb, errlog, crashed, mtx,
                   locals, rv, rep, engine, window, growvars, vervars, tlsvars>>

\* Line 282: pthread_mutex_lock(&g_internal_lock).
set_error_cb_lock(t) ==
    /\ At(t, "setcb_lock")
    /\ g_internal_lock = "none"
    /\ g_internal_lock' = t
    /\ Goto(t, "setcb_store")
    /\ UNCHANGED <<lifecycle, g_error_cb, errlog, crashed, op, mtx, locals, rv,
                   rep, ncalls, engine, others>>

\* Line 283: g_error_cb = fn.
set_error_cb_store(t) ==
    /\ At(t, "setcb_store")
    /\ g_error_cb' = fn[t]
    /\ window' = [u \in Threads |->
                    IF InReport(u) THEN window[u] \cup {fn[t]} ELSE {fn[t]}]
    /\ Goto(t, "setcb_unlock")
    /\ UNCHANGED <<lifecycle, g_internal_lock, errlog, crashed, op, mtx, locals,
                   rv, rep, ncalls, engine, fn, growvars, vervars, tlsvars>>

\* Lines 284-285: pthread_mutex_unlock(&g_internal_lock); return.
set_error_cb_unlock(t) ==
    /\ At(t, "setcb_unlock")
    /\ g_internal_lock' = "none"
    /\ Goto(t, "idle")
    /\ UNCHANGED <<lifecycle, g_error_cb, errlog, crashed, op, mtx, locals, rv,
                   rep, ncalls, engine, others>>

lksmith_set_error_cb(t) ==
    \/ \E f \in Callbacks : set_error_cb_enter(t, f)
    \/ set_error_cb_lock(t)
    \/ set_error_cb_store(t)
    \/ set_error_cb_unlock(t)

\* Lines 132-140: lksmith_print_error_unlocked(err, ...) is called; every
\* caller in the file passes LKSMITH_ERROR_OOM.
print_error_enter(t) ==
    /\ ~crashed
    /\ pc[t] = "idle"
    /\ ncalls < MaxCalls
    /\ ncalls' = ncalls + 1
    /\ op' = [op EXCEPT ![t] = "print_error"]
    /\ ret' = [ret EXCEPT ![t] = LKSMITH_ERROR_OOM]
    /\ error_cb' = [error_cb EXCEPT ![t] = "none"]
    /\ rep' = [rep EXCEPT ![t] = <<>>]
    /\ Goto(t, "print_lock")
    /\ UNCHANGED <<lifecycle, g_internal_lock, g_error_cb, errlog, crashed, mtx,
                   data, cur, prev, next_lock_id, rv, engine, others>>

\* Line 141: pthread_mutex_lock(&g_internal_lock).
print_error_lock(t) ==
    /\ At(t, "print_lock")
    /\ g_internal_lock = "none"
    /\ g_internal_lock' = t
    /\ Goto(t, "print_read")
    /\ UNCHANGED <<lifecycle, g_error_cb, errlog, crashed, op, mtx, locals, rv,
                   rep, ncalls, engine, others>>

\* A reader that keeps using the default callback.
print_error_read_default(t) ==
    /\ At(t, "print_read")
    /\ error_cb' = [error_cb EXCEPT ![t] = "lksmith_error_cb_to_stderr"]
    /\ Goto(t, "print_unlock")
    /\ UNCHANGED <<lifecycle, g_internal_lock, g_error_cb, errlog, crashed, op,
                   mtx, data, cur, prev, ret, next_lock_id, rv, rep, ncalls,
                   engine, others>>

\* Line 142: error_cb = g_error_cb.
print_error_read(t) ==
    /\ At(t, "print_read")
    /\ error_cb' = [error_cb EXCEPT ![t] = g_error_cb]
    /\ Goto(t, "print_unlock")
    /\ UNCHANGED <<lifecycle, g_internal_lock, g_error_cb, errlog, crashed, op,
                   mtx, data, cur, prev, ret, next_lock_id, rv, rep, ncalls,
                   engine, others>>

\* A printer that calls the callback before it releases g_internal_lock.
print_error_unlock_late(t) ==
    /\ At(t, "print_unlock")
    /\ Goto(t, "print_cb")
    /\ UNCHANGED <<lifecycle, g_internal_lock, g_error_cb, errlog, crashed, op,
                   mtx, locals, rv, rep, ncalls, engine, others>>

\* Line 143: pthread_mutex_unlock(&g_internal_lock).
print_error_unlock(t) ==
    /\ At(t, "print_unlock")
    /\ g_internal_lock' = "none"
    /\ Goto(t, "print_cb")
    /\ UNCHANGED <<lifecycle, g_error_cb, errlog, crashed, op, mtx, locals, rv,
                   rep, ncalls, engine, others>>

\* Line 144: error_cb(err, buf); the function returns.
print_error_cb(t) ==
    /\ At(t, "print_cb")
    /\ errlog' = Append(errlog, <<error_cb[t], ret[t]>>)
    /\ rep' = [rep EXCEPT ![t] = Append(rep[t], ret[t])]
    /\ Goto(t, "idle")
    /\ UNCHANGED <<lifecycle, g_internal_lock, g_error_cb, crashed, op, mtx,
                   locals, rv, ncalls, engine, others>>

lksmith_print_error_unlocked(t) ==
    \/ print_error_lock(t)
    \/ print_error_read(t)
    \/ print_error_unlock(t)
    \/ print_error_cb(t)

\* Error reports and callback changes: lksmith_set_error_cb against the two
\* reporting paths, lksmith_print_error_unlocked and lksmith_mutex_init.
NextCb ==
    \E t \in Threads :
        \/ lksmith_set_error_cb(t)
        \/ print_error_enter(t)
        \/ lksmith_print_error_unlocked(t)
        \/ lksmith_mutex_init(t)

SpecCb == Init /\ [][NextCb]_vars

\* ------------------------------------------------ before-bitfield growth
\* Lines 292-322, on a record d = [size, before] (size 0: *data is NULL)
\* and the bit count new_size.  alloc is what realloc does: it is handed
\* data, the address of the caller's pointer, not the block: the process
\* dies ("die"), or it returns NULL ("oom") or a block with the old
\* contents ("ok").  When the byte size grows, the memset at line 316 is
\* given the length new_byte_size - new_size as a size_t: below zero this is
\* a length of almost 2^64 bytes and the process dies.
lksmith_realloc_lock_data(d, new_size, alloc) ==
    LET old_size == d.size
        old_byte_size == (old_size + 7) \div 8
        new_byte_size == (new_size + 7) \div 8
        len == new_byte_size - new_size
        zeroed == {b \in d.before :
                     b \div 8 \in old_byte_size..(old_byte_size + len - 1)}
    IN  IF alloc = "die"
        THEN [ret |-> "DIED_IN_REALLOC", die |-> TRUE, data |-> d]
        ELSE IF alloc = "oom"
        THEN [ret |-> LKSMITH_ERROR_OOM, die |-> FALSE, data |-> d]
        ELSE IF old_size = 0
        THEN [ret |-> "OK", die |-> FALSE,
              data |-> [size |-> new_size, before |-> {}]]
        ELSE IF new_byte_size > old_byte_size /\ len < 0
        THEN [ret |-> "DIED_IN_MEMSET", die |-> TRUE, data |-> d]
        ELSE [ret |-> "OK", die |-> FALSE,
              data |-> [size |-> new_size,
                        before |-> IF new_byte_size > old_byte_size
                                   THEN d.before \ zeroed ELSE d.before]]

\* A call lksmith_realloc_lock_data(&data, n) that asks for at least the
\* present size.
realloc_lock_data_call(n, alloc) ==
    LET r == lksmith_realloc_lock_data(blk, n, alloc)
    IN  /\ ~crashed
        /\ n >= blk.size
        /\ blk' = r.data
        /\ grow_old' = blk
        /\ grow_arg' = n
        /\ grow_ret' = r.ret
        /\ crashed' = r.die
        /\ UNCHANGED <<lifecycle, g_internal_lock, g_error_cb, errlog, pc, op,
                       mtx, locals, rv, rep, ncalls, engine, cbvars, vervars,
                       tlsvars>>

\* The records the function is applied to: none, or one of the minimum
\* size with up to two bits set.
GrowInputs ==
    {NoBlock} \cup
    {[size |-> LKSMITH_BEFORE_MIN, before |-> {i, j}] :
        i, j \in 0..(LKSMITH_BEFORE_MIN - 1)} \cup
    {[size |-> LKSMITH_BEFORE_MIN, before |-> {}]}

InitGrow ==
    /\ LifecycleInit
    /\ CbInit
    /\ VerInit
    /\ TlsInit
    /\ blk \in GrowInputs
    /\ grow_old = blk
    /\ grow_arg = 0
    /\ grow_ret = "none"

NextGrow ==
    \E n \in LKSMITH_BEFORE_MIN..MaxBeforeSize, alloc \in {"ok", "oom", "die"} :
        realloc_lock_data_call(n, alloc)

SpecGrow == InitGrow /\ [][NextGrow]_vars

\* ------------------------------------------------------ version string
\* The major and minor numbers versions are made of (majors stay below
\* 2^15 so that the packed value is a TLC integer).
Majors == {0, 1, 12, 32767}
Minors == {0, 7, 12, 65535}

Pack(major, minor) == major * 65536 + minor

DigitChar(d) == <<"0", "1", "2", "3", "4", "5", "6", "7", "8", "9">>[d + 1]

\* What printf's %d writes for n >= 0.
RECURSIVE Dec(_)
Dec(n) == IF n < 10 THEN <<DigitChar(n)>>
          ELSE Append(Dec(n \div 10), DigitChar(n % 10))

\* snprintf(str, len, "%d.%d", a, b): the characters it stores before the
\* terminator, and its result, the length of the whole output.
Snprintf(len, a, b) ==
    LET full == Dec(a) \o <<".">> \o Dec(b)
        room == IF len = 0 THEN 0 ELSE len - 1
    IN  [res |-> Len(full),
         stored |-> IF Len(full) <= room THEN full ELSE SubSeq(full, 1, room)]

\* Lines 265-278.  The numbers formatted are those of LKSMITH_API_VERSION;
\* the argument v is not used.
lksmith_verion_to_str(v, len) ==
    LET out == Snprintf(len, (api_version \div 65536) % 65536,
                        api_version % 65536)
    IN  [str |-> out.stored,
         ret |-> IF out.res < 0 THEN "-EIO"
                 ELSE IF out.res >= len THEN "-ENAMETOOLONG"
                 ELSE "OK"]

verion_to_str_call ==
    /\ ~crashed
    /\ ver_ret = "none"
    /\ str' = lksmith_verion_to_str(ver, str_len).str
    /\ ver_ret' = lksmith_verion_to_str(ver, str_len).ret
    /\ UNCHANGED <<lifecycle, g_internal_lock, g_error_cb, errlog, crashed, pc,
                   op, mtx, locals, rv, rep, ncalls, engine, cbvars, growvars,
                   tlsvars, api_version, ver, str_len>>

InitVer ==
    /\ LifecycleInit
    /\ CbInit
    /\ GrowInit
    /\ TlsInit
    /\ api_version \in {Pack(a, b) : a \in Majors, b \in Minors}
    /\ ver \in {Pack(a, b) : a \in Majors, b \in Minors}
    /\ str_len \in 0..MaxStrLen
    /\ str = <<>>
    /\ ver_ret = "none"

NextVer == verion_to_str_call

SpecVer == InitVer /\ [][NextVer]_vars

\* ---------------------------------------------------- get_or_create_tls
nontls == <<lifecycle, g_internal_lock, g_error_cb, errlog, crashed, mtx, data,
            cur, prev, next_lock_id, rv, engine, cbvars, growvars, vervars>>

\* The lksmith_tls blocks calloc can return.
TlsBlocks == 1..MaxCalls

\* get_or_create_tls returns p to thread t.
TlsReturn(t, p) ==
    /\ tls_ret' = [tls_ret EXCEPT ![t] = p]
    /\ got' = [got EXCEPT ![t] = IF p = NULL THEN got[t] ELSE got[t] \cup {p}]
    /\ Goto(t, "idle")

\* get_or_create_tls fails: lksmith_print_error_unlocked(LKSMITH_ERROR_OOM,
\* ...) is called and NULL is returned once it is back.
TlsFail(t) ==
    /\ tls_ret' = [tls_ret EXCEPT ![t] = NULL]
    /\ ret' = [ret EXCEPT ![t] = LKSMITH_ERROR_OOM]
    /\ Goto(t, "print_lock")
    /\ UNCHANGED got

\* Lines 184-194: entry; with HAVE_IMPROVED_TLS a thread whose
\* t_improved_tls is set returns it at once.
tls_enter(t) ==
    /\ ~crashed
    /\ pc[t] = "idle"
    /\ ncalls < MaxCalls
    /\ ncalls' = ncalls + 1
    /\ op' = [op EXCEPT ![t] = "get_or_create_tls"]
    /\ rep' = [rep EXCEPT ![t] = <<>>]
    /\ error_cb' = [error_cb EXCEPT ![t] = "none"]
    /\ tls' = [tls EXCEPT ![t] = NULL]
    /\ IF improved /\ t_improved_tls[t] # NULL
       THEN TlsReturn(t, t_improved_tls[t]) /\ UNCHANGED ret
       ELSE /\ Goto(t, "tls_lock")
            /\ ret' = [ret EXCEPT ![t] = "OK"]
            /\ UNCHANGED <<tls_ret, got>>
    /\ UNCHANGED <<nontls, tlsglobals, slot, t_improved_tls, tls_live>>

\* Line 195: pthread_mutex_lock(&g_tls_lock) finds the mutex free.
tls_lock(t) ==
    /\ At(t, "tls_lock")
    /\ g_tls_lock = "none"
    /\ g_tls_lock' = t
    /\ Goto(t, "tls_key")
    /\ UNCHANGED <<nontls, op, ret, error_cb, rep, ncalls, tls_waiters,
                   g_tls_key_init, first_key, keys_created, improved, tlslocals>>

\* Line 195: pthread_mutex_lock(&g_tls_lock) finds the mutex locked: it marks
\* the lock word as having waiters and sleeps until an unlock wakes it.
tls_wait(t) ==
    /\ At(t, "tls_lock")
    /\ g_tls_lock # "none"
    /\ tls_waiters' = TRUE
    /\ Goto(t, "tls_asleep")
    /\ UNCHANGED <<nontls, op, ret, error_cb, rep, ncalls, g_tls_lock,
                   g_tls_key_init, first_key, keys_created, improved, tlslocals>>

\* Lines 196-198: if (!g_tls_key_init) ret = pthread_key_create(&g_tls_lock,
\* lksmith_tls_destroy).  The new key is stored over the first word of the
\* mutex g_tls_lock, which the caller holds: key 0 makes the lock word read
\* unlocked, key 1 locked with nobody waiting, a larger key locked with
\* waiters.  g_tls_key is not written.
tls_key_create(t) ==
    /\ At(t, "tls_key")
    /\ IF g_tls_key_init = 0
       THEN \/ /\ keys_created' = keys_created + 1
               /\ g_tls_lock' = IF first_key + keys_created = 0 THEN "none" ELSE t
               /\ tls_waiters' = (first_key + keys_created >= 2)
               /\ Goto(t, "tls_key_init")
               /\ UNCHANGED ret
            \/ /\ ret' = [ret EXCEPT ![t] = "EAGAIN"]
               /\ Goto(t, "tls_unlock")
               /\ UNCHANGED <<keys_created, g_tls_lock, tls_waiters>>
       ELSE /\ Goto(t, "tls_unlock")
            /\ UNCHANGED <<ret, keys_created, g_tls_lock, tls_waiters>>
    /\ UNCHANGED <<nontls, op, error_cb, rep, ncalls, g_tls_key_init, first_key,
                   improved, tlslocals>>

\* Lines 198-200: if (ret == 0) g_tls_key_init = 1.
tls_key_init(t) ==
    /\ At(t, "tls_key_init")
    /\ g_tls_key_init' = 1
    /\ Goto(t, "tls_unlock")
    /\ UNCHANGED <<nontls, op, ret, error_cb, rep, ncalls, g_tls_lock, tls_waiters,
                   first_key, keys_created, improved, tlslocals>>

\* Lines 202-208: pthread_mutex_unlock(&g_tls_lock) clears the lock word
\* and, if the word said so, wakes the sleepers; if (ret != 0) report and
\* return NULL.
tls_unlock(t) ==
    /\ At(t, "tls_unlock")
    /\ g_tls_lock' = "none"
    /\ tls_waiters' = FALSE
    /\ pc' = [u \in Threads |->
                IF u = t THEN (IF ret[t] # "OK" THEN "print_lock" ELSE "tls_get")
                ELSE IF tls_waiters /\ pc[u] = "tls_asleep" THEN "tls_lock"
                ELSE pc[u]]
    /\ ret' = [ret EXCEPT ![t] = IF ret[t] # "OK" THEN LKSMITH_ERROR_OOM ELSE "OK"]
    /\ UNCHANGED <<nontls, op, error_cb, rep, ncalls, g_tls_key_init, first_key,
                   keys_created, improved, tlslocals>>

\* Lines 209-229: without HAVE_IMPROVED_TLS, pthread_getspecific(g_tls_key)
\* and return what it gives if not null; then the two callocs, either of
\* which can fail.
tls_get(t) ==
    /\ At(t, "tls_get")
    /\ IF ~improved /\ slot[t] # NULL
       THEN /\ TlsReturn(t, slot[t])
            /\ tls' = [tls EXCEPT ![t] = slot[t]]
            /\ UNCHANGED <<ret, tls_live>>
       ELSE \/ \E b \in TlsBlocks \ tls_live :
                 /\ tls' = [tls EXCEPT ![t] = b]
                 /\ tls_live' = tls_live \cup {b}
                 /\ Goto(t, "tls_set")
                 /\ UNCHANGED <<ret, tls_ret, got>>
            \/ /\ TlsFail(t)
               /\ UNCHANGED <<tls, tls_live>>
    /\ UNCHANGED <<nontls, op, error_cb, rep, ncalls, tlsglobals, slot,
                   t_improved_tls>>

\* Lines 230-244: pthread_setspecific(g_tls_key, tls) stores under key 0;
\* on failure both blocks are freed and the error is reported.
tls_set(t) ==
    /\ At(t, "tls_set")
    /\ \/ /\ slot' = [slot EXCEPT ![t] = tls[t]]
          /\ t_improved_tls' = IF improved
                               THEN [t_improved_tls EXCEPT ![t] = tls[t]]
                               ELSE t_improved_tls
          /\ TlsReturn(t, tls[t])
          /\ UNCHANGED <<ret, tls_live>>
       \/ /\ tls_live' = tls_live \ {tls[t]}
          /\ TlsFail(t)
          /\ UNCHANGED <<slot, t_improved_tls>>
    /\ UNCHANGED <<nontls, op, error_cb, rep, ncalls, tlsglobals, tls>>

get_or_create_tls(t) ==
    \/ tls_enter(t)
    \/ tls_lock(t)
    \/ tls_wait(t)
    \/ tls_key_create(t)
    \/ tls_key_init(t)
    \/ tls_unlock(t)
    \/ tls_get(t)
    \/ tls_set(t)

\* The process as the first get_or_create_tls call finds it: either no
\* thread-specific key exists yet, so that the first key created is key 0,
\* or key 0 belongs to someone else, who may have stored a value under it
\* in any thread; the build is with or without HAVE_IMPROVED_TLS.
InitTls ==
    /\ LifecycleInit
    /\ CbInit
    /\ GrowInit
    /\ VerInit
    /\ g_tls_lock = "none"
    /\ tls_waiters = FALSE
    /\ g_tls_key_init = 0
    /\ first_key \in {0, 1}
    /\ keys_created = 0
    /\ slot \in [Threads -> {NULL, ForeignPtr}]
    /\ first_key = 0 => slot = [t \in Threads |-> NULL]
    /\ improved \in BOOLEAN
    /\ t_improved_tls = [t \in Threads |-> NULL]
    /\ tls = [t \in Threads |-> NULL]
    /\ tls_ret = [t \in Threads |-> NULL]
    /\ got = [t \in Threads |-> {}]
    /\ tls_live = {}

NextTls ==
    \E t \in Threads :
        \/ get_or_create_tls(t)
        \/ lksmith_print_error_unlocked(t)

SpecTls == InitTls /\ [][NextTls]_vars

\* ======================================================================
\* Properties
\* ======================================================================

\* get_record(id): the registry table's entry for a lock id, null when the
\* table has no such slot.
get_record(id) == IF id < g_locks_size THEN g_locks[id + 1] ELSE NULL

Tracked(m) == assoc[m] # NULL

\* Thread t has returned from a call of f.
Returned(t, f) == pc[t] = "idle" /\ op[t] = f

\* C1: every mutex a successful init has associated with a record carries a
\* lock id different from the id of every other tracked mutex, and
\* get_record of that id is the record the mutex is associated with.
C1_DistinctIdsResolve ==
    /\ \A m1, m2 \in Mutexes :
         (m1 # m2 /\ Tracked(m1) /\ Tracked(m2))
             => heap[assoc[m1]].id # heap[assoc[m2]].id
    /\ \A m \in Mutexes :
         Tracked(m) => get_record(heap[assoc[m]].id) = assoc[m]

\* C2: an init whose compare-and-swap finds the mutex already associated
\* leaves the association as it is and takes the error path with
\* CreateWhileInUse; on that path it reads the installed callback, frees the
\* record it built, passes CreateWhileInUse to that callback exactly once and
\* returns the failure EINVAL, and none of its steps changes any association.
InitLost(t) == op[t] = "init" /\ prev[t] # NULL

C2_CreateWhileInUse ==
    [][\A t \in Threads :
        /\ (pc[t] = "init_cas" /\ pc'[t] # "init_cas" /\ Tracked(mtx[t]))
              => /\ assoc' = assoc
                 /\ pc'[t] = "init_error"
                 /\ ret'[t] = LKSMITH_ERROR_CREATE_WHILE_IN_USE
        /\ (InitLost(t) /\ pc[t] = "init_error" /\ pc'[t] # "init_error")
              => /\ assoc' = assoc
                 /\ pc'[t] = "init_free"
                 /\ error_cb'[t] = g_error_cb
        /\ (InitLost(t) /\ pc[t] = "init_free" /\ pc'[t] # "init_free")
              => /\ assoc' = assoc
                 /\ pc'[t] = "init_cb"
                 /\ heap[data[t]].live /\ ~heap'[data[t]].live
        /\ (InitLost(t) /\ pc[t] = "init_cb" /\ pc'[t] # "init_cb")
              => /\ assoc' = assoc
                 /\ pc'[t] = "idle"
                 /\ errlog' = Append(errlog,
                                <<error_cb[t], LKSMITH_ERROR_CREATE_WHILE_IN_USE>>)
                 /\ rep'[t] = <<LKSMITH_ERROR_CREATE_WHILE_IN_USE>>
                 /\ rv'[t] = "EINVAL"
    ]_vars

\* C2 witness: an init has returned EINVAL after reporting CreateWhileInUse,
\* and the mutex still has the record the compare-and-swap found.
C2_Witness ==
    \E t \in Threads :
        /\ Returned(t, "init") /\ prev[t] # NULL
        /\ rv[t] = "EINVAL"
        /\ rep[t] = <<LKSMITH_ERROR_CREATE_WHILE_IN_USE>>
        /\ assoc[mtx[t]] = prev[t]
        /\ heap[prev[t]].live

\* C3: a destroy that found the mutex's association null, at its read and
\* at its compare-and-swap, returns a failure and has reported
\* MultipleDestroy through the callback.
C3_MultipleDestroy ==
    \A t \in Threads :
        (Returned(t, "destroy") /\ cur[t] = NULL /\ prev[t] = NULL)
            => /\ rv[t] # "OK"
               /\ rep[t] = <<LKSMITH_ERROR_MULTIPLE_DESTROY>>

\* C10: no lock id is handed out twice: a later init never gets an id an
\* earlier init got, whether or not the earlier lock was destroyed since.
C10_IdsNeverReused ==
    \A i, j \in 1..Len(issued) : i # j => issued[i] # issued[j]

\* A destroy by thread d and an init by thread i, on the same mutex, that
\* ran concurrently and have both returned.
RacePair(d, i) ==
    /\ d # i
    /\ Returned(d, "destroy") /\ Returned(i, "init")
    /\ mtx[d] = mtx[i]
    /\ overlap[d] /\ overlap[i]

NoLiveRecordFreed == \A m \in Mutexes : Tracked(m) => heap[assoc[m]].live

AcquireOps == {"lock", "trylock", "timedlock"}

\* How many times a callback has been handed the error code.
NumReported(code) ==
    Cardinality({k \in 1..Len(errlog) : errlog[k][2] = code})

\* The lock ids of the tracked mutexes thread t owns.
HeldIds(t) == {heap[assoc[m]].id : m \in {x \in owned[t] : Tracked(x)}}

\* Thread t comes to own mutex m in this step.
Acquires(t, m) == m \notin owned[t] /\ m \in owned'[t]

\* C5: when a thread acquires a tracked mutex m while it owns a tracked
\* mutex h, and another thread, which has released everything since, had
\* acquired h while owning m, then that acquisition reports exactly one
\* OrderViolation, and afterwards every thread's held set is exactly the
\* set of ids of the locks it owns.
C5_OneOrderViolation ==
    [][\A t \in Threads, m, h \in Mutexes :
          (/\ Acquires(t, m) /\ h \in owned[t] /\ h # m
           /\ Tracked(m) /\ Tracked(h)
           /\ \E u \in Threads \ {t} : <<u, m, h>> \in order /\ owned[u] = {})
             => /\ NumReported(OrderViolation)' = NumReported(OrderViolation) + 1
                /\ \A x \in Threads : held'[x] = HeldIds(x)'
      ]_vars

\* Every nested acquisition so far took A before B.
FixedTotalOrder == \A e \in order : e[2] = "A" /\ e[3] = "B"

\* C6: as long as every thread has acquired the tracked locks only in the
\* order A then B, whatever the interleaving and however many trylock and
\* timedlock attempts failed and were retried, no OrderViolation has been
\* reported.
C6_NoFalsePositive ==
    (Tracked("A") /\ Tracked("B") /\ FixedTotalOrder)
        => NumReported(OrderViolation) = 0

\* C6 witness: both threads have taken A and then B; one of them has
\* released both and its latest trylock or timedlock attempt failed, the
\* other owns both, its last call being the lock of B.
C6_Witness ==
    /\ Tracked("A") /\ Tracked("B")
    /\ order = {<<t, "A", "B">> : t \in Threads}
    /\ \E t, u \in Threads :
         /\ owned[t] = {"A", "B"}
         /\ op[t] = "lock" /\ mtx[t] = "B" /\ rv[t] = "OK"
         /\ owned[u] = {}
         /\ op[u] \in {"trylock", "timedlock"} /\ rv[u] # "OK"

\* Thread t's call changes what it last called or what it got back.
Calls(t) == <<op'[t], mtx'[t], rv'[t]>> # <<op[t], mtx[t], rv[t]>>

\* C8: an acquisition that succeeds sets the calling thread's held bit of
\* the lock and increments the lock's acquire count by exactly one; an
\* acquire that fails leaves every held set and every acquire count as it
\* was.
C8_CountsAcquisitions ==
    [][\A t \in Threads, m \in Mutexes :
          /\ (Acquires(t, m) /\ Tracked(m))
                => /\ heap'[assoc[m]].nlock = heap[assoc[m]].nlock + 1
                   /\ heap[assoc[m]].id \in held'[t]
          /\ (Calls(t) /\ op'[t] \in AcquireOps /\ rv'[t] # "OK")
                => heap' = heap /\ held' = held
      ]_vars

\* C9: a wrapper call that returns success was made on a mutex that has an
\* associated record and, if it is a release, by a thread whose held bit of
\* that lock was set; a call that does not return success changes no held
\* set, before set or acquire count.
C9_UsageErrorsRejected ==
    [][\A t \in Threads :
          /\ (Calls(t) /\ op'[t] \in AcquireOps \cup {"unlock"} /\ rv'[t] = "OK")
                => /\ Tracked(mtx'[t])
                   /\ op'[t] = "unlock" => heap[assoc[mtx'[t]]].id \in held[t]
          /\ (Calls(t) /\ op'[t] \in AcquireOps \cup {"unlock"} /\ rv'[t] # "OK")
                => heap' = heap /\ held' = held
      ]_vars


\* ------------------------------------------------- callback properties
\* Thread t calls a callback in this step.
Delivers(t) ==
    /\ pc[t] \in {"init_cb", "print_cb"} /\ pc'[t] = "idle"
    /\ Len(errlog') = Len(errlog) + 1

\* C11: every error report is delivered exactly once, to a callback that was
\* the installed one at some moment since the report started; so a report
\* that starts after lksmith_set_error_cb(fn) has stored fn, with no later
\* change, goes to fn and not to the callback installed before.
C11_ReportsToInstalled ==
    [][\A t \in Threads :
          /\ Delivers(t)
                => /\ errlog' = Append(errlog, <<errlog'[Len(errlog')][1], ret[t]>>)
                   /\ errlog'[Len(errlog')][1] \in window[t]
                   /\ errlog'[Len(errlog')][1] \in Callbacks
          /\ (InReport(t) /\ pc'[t] = "idle") => Delivers(t)
      ]_vars

\* C11 witness: a report that started after lksmith_set_error_cb(fn1) had
\* returned has been delivered to fn1, the default callback having received
\* an earlier report.
C11_Witness ==
    /\ Len(errlog) = 2
    /\ errlog[1][1] = "lksmith_error_cb_to_stderr"
    /\ errlog[2][1] = "fn1"
    /\ g_error_cb = "fn1"
    /\ \A t \in Threads : pc[t] = "idle"
    /\ \E t \in Threads : op[t] = "set_error_cb" /\ fn[t] = "fn1"

\* C19: the thread that calls the callback does not hold g_internal_lock at
\* the call, and it read the callback while it held the lock.
C19_CallbackOutsideLock ==
    [][\A t \in Threads :
          /\ Delivers(t) => g_internal_lock # t
          /\ (error_cb'[t] # error_cb[t] /\ error_cb'[t] # "none" /\ InReport(t))
                => g_internal_lock = t /\ error_cb'[t] = g_error_cb
      ]_vars

\* C19 witness: both reporting paths have called a callback, and the lock
\* is free.
C19_Witness ==
    /\ \E t, u \in Threads :
         /\ Returned(t, "print_error") /\ rep[t] = <<LKSMITH_ERROR_OOM>>
         /\ Returned(u, "init") /\ Len(rep[u]) = 1
    /\ Len(errlog) = 2
    /\ g_internal_lock = "none"


\* --------------------------------------------------- growth properties
\* C12: a call that grows a bitfield from old_n to new_n >= old_n bits,
\* and in which realloc returned, returns; when it returns success the size is new_n, not below old_n,
\* every bit below old_n is as it was and every bit from old_n up to new_n
\* is clear; when it returns the out-of-memory failure the record is as it
\* was.
C12_GrowthPreserves ==
    (grow_ret \notin {"none", "DIED_IN_REALLOC"} /\ grow_arg >= grow_old.size)
        => /\ grow_ret \in {"OK", LKSMITH_ERROR_OOM}
           /\ grow_ret = "OK"
                => /\ blk.size = grow_arg /\ blk.size >= grow_old.size
                   /\ \A b \in 0..(grow_old.size - 1) :
                         b \in blk.before <=> b \in grow_old.before
                   /\ \A b \in grow_old.size..(grow_arg - 1) : b \notin blk.before
           /\ grow_ret = LKSMITH_ERROR_OOM => blk = grow_old


\* -------------------------------------------------- version properties
\* "MAJOR.MINOR" for the packed version v.
MajorMinor(v) == Dec((v \div 65536) % 65536) \o <<".">> \o Dec(v % 65536)

\* C13: when the buffer has room for "MAJOR.MINOR" of the given ver and its
\* terminator, exactly that string is written and the call returns success;
\* otherwise the call returns the name-too-long failure; in both cases what
\* is written, terminator included, fits the buffer.
C13_FormatsGivenVersion ==
    ver_ret # "none"
        => /\ IF Len(MajorMinor(ver)) + 1 <= str_len
              THEN ver_ret = "OK" /\ str = MajorMinor(ver)
              ELSE ver_ret = "-ENAMETOOLONG"
           /\ \/ str_len = 0 /\ str = <<>>
              \/ Len(str) + 1 <= str_len


\* ------------------------------------------------- allocator properties
\* C14: when lksmith_alloc_next_lock_id returns an id to an init that holds
\* g_internal_lock, the id is the lowest index whose used bit was clear, it
\* is below the table size, its used bit is now set and no other used bit
\* has changed.
C14_AllocLowestClear ==
    [][\A t \in Threads :
          (pc[t] = "init_alloc" /\ pc'[t] = "init_cas")
             => /\ g_internal_lock = t
                /\ next_lock_id'[t] = ScanFirstClear(g_locks_used, g_locks_size)
                /\ next_lock_id'[t] < g_locks_size'
                /\ BITFIELD_TEST(g_locks_used', next_lock_id'[t])
                /\ g_locks_used' \ {next_lock_id'[t]}
                      = g_locks_used \ {next_lock_id'[t]}
      ]_vars

\* ------------------------------------------------- destroy properties
\* C15: a destroy whose compare-and-swap failed returns from its failure
\* path in one step, having passed its error code to the callback exactly
\* once, with a failure as its result, nothing freed and every association
\* as it was; a destroy whose compare-and-swap succeeded frees the record it
\* detached and returns success.
C15_DestroyReturns ==
    [][\A t \in Threads :
          /\ (pc[t] = "destroy_error" /\ <<pc[t], ret[t], error_cb[t], rv[t]>>
                                           # <<pc'[t], ret'[t], error_cb'[t], rv'[t]>>)
                => /\ pc'[t] = "idle"
                   /\ errlog' = Append(errlog, <<g_error_cb, ret[t]>>)
                   /\ rv'[t] # "OK"
                   /\ heap' = heap
                   /\ assoc' = assoc
          /\ (pc[t] = "destroy_free" /\ pc'[t] # "destroy_free")
                => /\ pc'[t] = "idle"
                   /\ rv'[t] = "OK"
                   /\ prev[t] # NULL => ~heap'[prev[t]].live
      ]_vars


\* ------------------------------------------- thread-local properties
\* C16: the thread-specific key is created at most once; every pointer
\* get_or_create_tls returns to a thread is one lksmith_tls block, the same
\* one at every call of that thread; and no two threads are given the same
\* block.
C16_OneKeyOneState ==
    /\ keys_created <= 1
    /\ \A t \in Threads : got[t] \subseteq TlsBlocks /\ Cardinality(got[t]) <= 1
    /\ \A t, u \in Threads : t # u => got[t] \cap got[u] = {}


\* C18: a thread that is in no library call holds neither g_internal_lock
\* nor g_tls_lock; no thread holds both at once; and a thread never sleeps
\* on g_tls_lock unless the mutex is held and its lock word says that
\* threads are waiting, so that the holder's unlock wakes it.
C18_OwnMutexesNeverBlock ==
    /\ \A t \in Threads :
         pc[t] = "idle" => g_internal_lock # t /\ g_tls_lock # t
    /\ \A t \in Threads : ~(g_internal_lock = t /\ g_tls_lock = t)
    /\ \A t \in Threads :
         pc[t] = "tls_asleep" => g_tls_lock # "none" /\ tls_waiters


\* C17: once one thread that owns A has called lock on B and another thread
\* that owns B has called lock on A, with A and B tracked, at least one
\* order violation has been reported.
C17_DetectionBeforeDeadlock ==
    \A t, u \in Threads :
        (/\ t # u
         /\ Tracked("A") /\ Tracked("B")
         /\ owned[t] = {"A"} /\ op[t] = "lock" /\ mtx[t] = "B"
         /\ owned[u] = {"B"} /\ op[u] = "lock" /\ mtx[u] = "A")
            => NumReported(OrderViolation) >= 1

====
